---- MODULE Spec2Model ----
(***************************************************************************)
(* A model of the image ingestion pipeline of hensler-photography:         *)
(* api/routes/ingestion.py (ingest_image, delete_image),                   *)
(* api/services/claude_vision.py (analyze_image),                          *)
(* api/services/image_processor.py (generate_variants,                     *)
(* generate_ai_analysis_image, cleanup_temp_file), api/database.py         *)
(* (SCHEMA, get_db_connection) and api/routes/photographer.py.             *)
(*                                                                         *)
(* Strings are sequences of one-character strings, so that the string      *)
(* conversions of the code (Path.stem, str.title, slugify, LIKE) are       *)
(* computed and not assumed.                                               *)
(***************************************************************************)
EXTENDS Integers, Sequences, FiniteSets, TLC

None == "None"

(***************************************************************************)
(* Characters and strings                                                  *)
(***************************************************************************)
LowerCase == <<"a","b","c","d","e","f","g","h","i","j","k","l","m",
               "n","o","p","q","r","s","t","u","v","w","x","y","z">>
UpperCase == <<"A","B","C","D","E","F","G","H","I","J","K","L","M",
               "N","O","P","Q","R","S","T","U","V","W","X","Y","Z">>
DigitChars == <<"0","1","2","3","4","5","6","7","8","9">>

Range(s) == {s[i] : i \in DOMAIN s}
IndexOf(s, c) == CHOOSE i \in DOMAIN s : s[i] = c

IsLower(c) == c \in Range(LowerCase)
IsUpper(c) == c \in Range(UpperCase)
IsDigit(c) == c \in Range(DigitChars)
IsCased(c) == IsLower(c) \/ IsUpper(c)
IsAlnum(c) == IsCased(c) \/ IsDigit(c)

ToLower(c) == IF IsUpper(c) THEN LowerCase[IndexOf(UpperCase, c)] ELSE c
ToUpper(c) == IF IsLower(c) THEN UpperCase[IndexOf(LowerCase, c)] ELSE c

\* str.lower()
Lower(s) == [i \in DOMAIN s |-> ToLower(s[i])]

\* str.replace(old, new) for one-character old and new
Replace(s, old, new) == [i \in DOMAIN s |-> IF s[i] = old THEN new ELSE s[i]]

\* str.title(): a cased character is upper-cased when the character before it
\* is not cased (or it is the first), and lower-cased otherwise.
Title(s) ==
    [i \in DOMAIN s |->
        IF i = 1 \/ ~IsCased(s[i - 1]) THEN ToUpper(s[i]) ELSE ToLower(s[i])]

\* str.rfind(".") as a 1-based index, 0 when there is no dot
LastDot(s) ==
    IF \E i \in DOMAIN s : s[i] = "."
    THEN CHOOSE i \in DOMAIN s : s[i] = "." /\ \A j \in DOMAIN s : s[j] = "." => j <= i
    ELSE 0

\* pathlib: PurePath.suffix is the part from the last dot, unless the dot is
\* the first or the last character of the name.
HasSuffix(s) == LastDot(s) > 1 /\ LastDot(s) < Len(s)
Suffix(s) == IF HasSuffix(s) THEN SubSeq(s, LastDot(s), Len(s)) ELSE <<>>
Stem(s) == IF HasSuffix(s) THEN SubSeq(s, 1, LastDot(s) - 1) ELSE s

\* str(n) for a natural number
RECURSIVE Str(_)
Str(n) == IF n < 10 THEN <<DigitChars[n + 1]>>
          ELSE Str(n \div 10) \o <<DigitChars[(n % 10) + 1]>>

\* s.startswith(prefix)
StartsWith(s, prefix) ==
    Len(prefix) <= Len(s) /\ SubSeq(s, 1, Len(prefix)) = prefix

\* python-slugify: lower-case, every run of non-alphanumeric characters
\* becomes one "-", and leading and trailing "-" are stripped.
RECURSIVE SlugChars(_, _)
SlugChars(s, i) ==
    IF i > Len(s) THEN <<>>
    ELSE IF IsAlnum(s[i]) THEN <<ToLower(s[i])>> \o SlugChars(s, i + 1)
    ELSE IF i > 1 /\ ~IsAlnum(s[i - 1]) THEN SlugChars(s, i + 1)
    ELSE <<"-">> \o SlugChars(s, i + 1)

RECURSIVE StripDash(_)
StripDash(s) ==
    IF s = <<>> THEN s
    ELSE IF Head(s) = "-" THEN StripDash(Tail(s))
    ELSE IF s[Len(s)] = "-" THEN StripDash(SubSeq(s, 1, Len(s) - 1))
    ELSE s

slugify(s) == StripDash(SlugChars(s, 1))

(***************************************************************************)
(* Program constants                                                       *)
(***************************************************************************)
\* ingest_image: allowed_types
allowed_types == {"image/jpeg", "image/jpg", "image/png"}
\* ingest_image: max_size = 20 * 1024 * 1024
max_size == 20 * 1024 * 1024
\* ingest_image: format_to_mime, and its .get default
format_to_mime(fmt) ==
    CASE fmt = "jpeg" -> "image/jpeg"
      [] fmt = "png"  -> "image/png"
      [] fmt = "gif"  -> "image/gif"
      [] fmt = "webp" -> "image/webp"
      [] OTHER        -> "image/jpeg"
\* generate_variants: sizes, in the order the dict is iterated
sizes == << [name |-> "large",     target |-> 1200],
            [name |-> "medium",    target |-> 800],
            [name |-> "thumbnail", target |-> 400] >>
SizeNames == {sizes[i].name : i \in DOMAIN sizes}
\* generate_ai_analysis_image: MAX_DIMENSION
MAX_DIMENSION == 1568

\* The error codes of api/errors.py that the pipeline produces
AUTH_MISSING_KEY           == "AUTH_MISSING_KEY"
AUTH_INVALID_KEY           == "AUTH_INVALID_KEY"
RATE_CLAUDE_LIMIT          == "RATE_CLAUDE_LIMIT"
EXTERNAL_CLAUDE_ERROR      == "EXTERNAL_CLAUDE_ERROR"
PROCESSING_IMAGE_FAILED    == "PROCESSING_IMAGE_FAILED"
VALIDATION_INVALID_TYPE    == "VALIDATION_INVALID_TYPE"
VALIDATION_FILE_TOO_LARGE  == "VALIDATION_FILE_TOO_LARGE"
DATABASE_CONNECTION_FAILED == "DATABASE_CONNECTION_FAILED"
INTERNAL_ERROR             == "INTERNAL_ERROR"
FORMAT_MISMATCH            == "FORMAT_MISMATCH"

(***************************************************************************)
(* Uploaded contents.  A blob stands for the bytes of one upload: its      *)
(* length, what PIL decodes from it (fmt = "corrupt": Image.open raises),  *)
(* whether its pixel mode can be written as JPEG, the first 16 hex digits   *)
(* of its SHA-256 (shortened to two), and its embedded EXIF segment.       *)
(***************************************************************************)
MiB == 1024 * 1024

\* An EXIF segment: present or not, and the tags in it that are malformed
\* ("rational": a FocalLength with denominator 0, "date": a DateTimeOriginal
\* that strptime rejects, "gps": a latitude that is not three rationals).
ExifSegment(present, defects) == [present |-> present, defects |-> defects]
NoExifSegment == ExifSegment(FALSE, {})

Blob(len, fmt, w, h, jpegOk, hash) ==
    [len |-> len, fmt |-> fmt, w |-> w, h |-> h, jpegOk |-> jpegOk, hash |-> hash,
     exif |-> NoExifSegment]

BlobLandscape ==
    [Blob(5 * MiB, "jpeg", 3000, 2000, TRUE, <<"a","1">>)
        EXCEPT !.exif = ExifSegment(TRUE, {})]
BlobSmallPng  == Blob(1 * MiB, "png", 300, 200, TRUE, <<"b","2">>)
BlobCorrupt   == Blob(1 * MiB, "corrupt", 0, 0, TRUE, <<"c","3">>)
BlobTooLarge  == Blob(26 * MiB, "jpeg", 6000, 4000, TRUE, <<"d","4">>)
BlobAtLimit   == Blob(max_size, "jpeg", 800, 1200, TRUE, <<"e","5">>)
BlobOverLimit == Blob(max_size + 1, "png", 800, 600, TRUE, <<"f","6">>)
BlobGif       == Blob(1 * MiB, "gif", 1200, 900, TRUE, <<"0","7">>)
BlobSliver    == Blob(1 * MiB, "png", 3000, 2, TRUE, <<"1","8">>)
BlobFloat     ==
    [Blob(9 * MiB, "tiff", 4000, 3000, FALSE, <<"2","9">>)
        EXCEPT !.exif = ExifSegment(TRUE, {"date", "gps"})]
BlobBadExif   ==
    [Blob(2 * MiB, "jpeg", 1600, 1200, TRUE, <<"3","a">>)
        EXCEPT !.exif = ExifSegment(TRUE, {"rational"})]

Decodable(blob) == blob.fmt # "corrupt"

(***************************************************************************)
(* Content addresser: ingest_image, "Generate unique filename using hash"  *)
(***************************************************************************)
\* datetime.now().strftime("%Y%m%d_%H%M%S") with the clock at second t: the
\* date digits, an underscore and the zero-padded time digits.
strftime(t) ==
    <<"2","4">> \o <<"_">> \o (IF t < 10 THEN <<"0">> ELSE <<>>) \o Str(t)

\* original_filename = f"{timestamp}_{file_hash}{ext}"
StoredName(t, blob, filename) ==
    strftime(t) \o <<"_">> \o blob.hash \o Lower(Suffix(filename))

(***************************************************************************)
(* Rendition generator: image_processor.generate_variants                  *)
(***************************************************************************)
\* "Don't upscale (except thumbnails - always generate those)"
Skipped(blob, sz) == blob.w <= sz.target /\ sz.name # "thumbnail"

\* A resize to the target width whatever the original's width
new_width_upscaled(blob, sz) == sz.target

new_width(blob, sz) == IF sz.target < blob.w THEN sz.target ELSE blob.w
\* int(new_width / aspect_ratio) with aspect_ratio = width / height: the
\* quotient truncated.  (In floating point the result is one less for some
\* sizes whose exact quotient is an integer, 1x99 for one; the blobs of this
\* model are not among them.)
new_height(blob, sz) == (new_width(blob, sz) * blob.h) \div blob.w

\* One size class raises inside its try block: Image.resize refuses a side
\* of 0 pixels, or the WebP encoder fails (encFail, the environment's choice).
ClassRaises(blob, sz, encFail) ==
    new_height(blob, sz) < 1 \/ sz.name \in encFail

variant_info(blob, base_name, sz) ==
    [format   |-> "webp",
     size     |-> sz.name,
     filename |-> base_name \o <<"_", sz.name, ".webp">>,
     width    |-> new_width(blob, sz),
     height   |-> new_height(blob, sz)]

RECURSIVE VariantLoop(_, _, _, _)
VariantLoop(blob, base_name, encFail, i) ==
    IF i > Len(sizes) THEN <<>>
    ELSE IF Skipped(blob, sizes[i]) \/ ClassRaises(blob, sizes[i], encFail)
         THEN VariantLoop(blob, base_name, encFail, i + 1)
         ELSE <<variant_info(blob, base_name, sizes[i])>>
                  \o VariantLoop(blob, base_name, encFail, i + 1)

\* A variant of generate_variants that reports the error as soon as one size
\* class failed, keeping the renditions that succeeded.
generate_variants_strict(blob, original_filename, encFail) ==
    IF ~Decodable(blob)
    THEN [variants |-> <<>>, error |-> PROCESSING_IMAGE_FAILED]
    ELSE LET vs == VariantLoop(blob, Stem(original_filename), encFail, 1)
         IN  IF vs = <<>> \/ encFail # {}
             THEN [variants |-> vs, error |-> PROCESSING_IMAGE_FAILED]
             ELSE [variants |-> vs, error |-> None]

\* Returns (variants, error): ([], error) when the image cannot be opened or
\* when no size class succeeded.
generate_variants(blob, original_filename, encFail) ==
    IF ~Decodable(blob)
    THEN [variants |-> <<>>, error |-> PROCESSING_IMAGE_FAILED]
    ELSE LET vs == VariantLoop(blob, Stem(original_filename), encFail, 1)
         IN  IF vs = <<>>
             THEN [variants |-> <<>>, error |-> PROCESSING_IMAGE_FAILED]
             ELSE [variants |-> vs, error |-> None]

VariantFiles(vs) == {vs[i].filename : i \in DOMAIN vs}

(***************************************************************************)
(* Caption generator: image_processor.generate_ai_analysis_image and       *)
(* claude_vision.analyze_image                                             *)
(***************************************************************************)
NeedsResize(blob) == blob.w > MAX_DIMENSION \/ blob.h > MAX_DIMENSION

\* The size the downscaled copy would get
ai_width(blob)  == IF blob.w > blob.h THEN MAX_DIMENSION
                   ELSE (MAX_DIMENSION * blob.w) \div blob.h
ai_height(blob) == IF blob.w > blob.h THEN (MAX_DIMENSION * blob.h) \div blob.w
                   ELSE MAX_DIMENSION

\* Returns (path, error) and, as its side effect, whether mkstemp left a file:
\* path = "temp" is the temporary copy, "original" the path it was given.
\* tmp is the environment's choice for the temporary file: "ok",
\* "mkstemp_fail" or "save_fail".
generate_ai_analysis_image(blob, tmp) ==
    IF ~Decodable(blob)
    THEN [path |-> "original", error |-> TRUE, created |-> FALSE]
    ELSE IF ~NeedsResize(blob)
    THEN [path |-> "original", error |-> FALSE, created |-> FALSE]
    ELSE IF ai_width(blob) < 1 \/ ai_height(blob) < 1 \/ tmp = "mkstemp_fail"
    THEN [path |-> "original", error |-> TRUE, created |-> FALSE]
    ELSE IF ~blob.jpegOk \/ tmp = "save_fail"
    THEN [path |-> "original", error |-> TRUE, created |-> TRUE]
    ELSE [path |-> "temp", error |-> FALSE, created |-> TRUE]

required_fields == {"title", "caption", "description", "tags", "category"}

\* _get_fallback_metadata(image_path): the title is the humanized stem of the
\* path analyze_image was given.
Humanize(stem) == Title(Replace(Replace(stem, "_", " "), "-", " "))

_get_fallback_metadata(image_path) ==
    [title |-> Humanize(Stem(image_path)), fields |-> required_fields,
     src |-> "fallback"]

\* "Validate required fields": a field the response lacks is set to "" / [].
FillRequired(obj) ==
    [title  |-> IF "title" \in obj.present THEN obj.title ELSE <<>>,
     fields |-> obj.present \cup required_fields,
     src    |-> "api"]

\* The exception the try block of analyze_image ends with ("none": it
\* returned normally, "JSONDecodeError": caught by the inner try).
TryBody(blob, env) ==
    LET rz == generate_ai_analysis_image(blob, env.tmp)
    IN  IF rz.error THEN "AttributeError"     \* resize_error.error.message
        ELSE IF ~env.readOk THEN "OSError"    \* open(ai_image_path, "rb")
        ELSE IF env.api = "auth" THEN "AuthenticationError"
        ELSE IF env.api = "rate" THEN "RateLimitError"
        ELSE IF env.api = "connection" THEN "APIConnectionError"
        ELSE IF env.api = "crash" THEN "RuntimeError"
        ELSE IF env.body = "not_json" THEN "JSONDecodeError"
        ELSE IF env.body = "not_object" THEN "AttributeError"  \* metadata.get
        ELSE "none"

\* The except clauses of analyze_image, in order: the error code each
\* exception is converted to ("RAISE": no clause catches it).
\* Without the last clause, "except Exception"
ExceptClauseNoCatchAll(exc) ==
    CASE exc = "JSONDecodeError"     -> EXTERNAL_CLAUDE_ERROR
      [] exc = "AuthenticationError" -> AUTH_INVALID_KEY
      [] exc = "RateLimitError"      -> RATE_CLAUDE_LIMIT
      [] exc = "APIConnectionError"  -> EXTERNAL_CLAUDE_ERROR
      [] OTHER                       -> "RAISE"

\* With "except anthropic.APIError" first: AuthenticationError and
\* RateLimitError are subclasses of APIError.
ExceptClauseApiErrorFirst(exc) ==
    CASE exc = "JSONDecodeError"     -> EXTERNAL_CLAUDE_ERROR
      [] exc = "AuthenticationError" -> EXTERNAL_CLAUDE_ERROR
      [] exc = "RateLimitError"      -> EXTERNAL_CLAUDE_ERROR
      [] exc = "APIConnectionError"  -> EXTERNAL_CLAUDE_ERROR
      [] OTHER                       -> EXTERNAL_CLAUDE_ERROR

ExceptClause(exc) ==
    CASE exc = "JSONDecodeError"     -> EXTERNAL_CLAUDE_ERROR
      [] exc = "AuthenticationError" -> AUTH_INVALID_KEY
      [] exc = "RateLimitError"      -> RATE_CLAUDE_LIMIT
      [] exc = "APIConnectionError"  -> EXTERNAL_CLAUDE_ERROR
      [] OTHER                       -> EXTERNAL_CLAUDE_ERROR

\* needs_cleanup when the finally block runs: it is assigned only after the
\* resize_error check.
needs_cleanup(blob, env) ==
    LET rz == generate_ai_analysis_image(blob, env.tmp)
    IN  ~rz.error /\ rz.path # "original"

\* cleanup_temp_file removes the path it is given when it exists and is a
\* temporary copy.
TempLeft(blob, env) ==
    LET rz == generate_ai_analysis_image(blob, env.tmp)
    IN  rz.created /\ ~(needs_cleanup(blob, env) /\ rz.path = "temp")

\* How the call ended: "missing_key", or what its try block ended with
CaptionMode(blob, env) == IF ~env.key THEN "missing_key" ELSE TryBody(blob, env)

\* analyze_image: (metadata, error), whether it raised instead of returning,
\* and whether a temporary copy is left on disk when it ends.
analyze_image(blob, image_path, env) ==
    IF ~env.key
    THEN [meta |-> _get_fallback_metadata(image_path), error |-> AUTH_MISSING_KEY,
          raised |-> FALSE, tmpCreated |-> FALSE, tmpLeft |-> FALSE]
    ELSE LET exc  == TryBody(blob, env)
             code == ExceptClause(exc)
             made == generate_ai_analysis_image(blob, env.tmp).created
         IN  IF exc = "none"
             THEN [meta |-> FillRequired(env.obj), error |-> None, raised |-> FALSE,
                   tmpCreated |-> made, tmpLeft |-> TempLeft(blob, env)]
             ELSE [meta |-> _get_fallback_metadata(image_path),
                   error |-> IF code = "RAISE" THEN None ELSE code,
                   raised |-> code = "RAISE",
                   tmpCreated |-> made, tmpLeft |-> TempLeft(blob, env)]

(***************************************************************************)
(* Bounds of the model                                                     *)
(***************************************************************************)
\* The clock runs over the seconds 0 .. MaxClock.
MaxClock == 1
\* No new ingestion is accepted once MaxImages image ids were handed out.
MaxImages == 1

(***************************************************************************)
(* Inputs                                                                  *)
(***************************************************************************)
Procs == {1, 2}
Users == {1, 2}

FileMyPic == <<"m","y","_","p","-","1",".","J","P","G">>
FilePlain == <<"a",".","p","n","g">>

TitleAB == <<"A"," ","b">>
TitleA2 == <<"A", " ", "2">>
TitleA  == <<"A">>

Upload(user_id, filename, content_type, blob) ==
    [user_id |-> user_id, filename |-> filename,
     content_type |-> content_type, blob |-> blob]

\* What the captioning service and the temporary directory do in one call
CaptionEnv(key, tmp, readOk, api, body, obj) ==
    [key |-> key, tmp |-> tmp, readOk |-> readOk, api |-> api, body |-> body,
     obj |-> obj]

ApiObject(present, title) == [present |-> present, title |-> title]

Healthy(title) ==
    CaptionEnv(TRUE, "ok", TRUE, "ok", "object", ApiObject(required_fields, title))

(***************************************************************************)
(* State                                                                   *)
(***************************************************************************)
VARIABLES
    files,           \* asset store /app/assets/gallery: the names present
    tmpfiles,        \* temporary directory: the "_ai_temp" copies present
    images,          \* committed rows of table images
    image_variants,  \* committed rows of table image_variants
    sqlite_sequence, \* AUTOINCREMENT: the largest image id committed so far
    dbLock,          \* the handlers whose connection holds SQLite's write lock
    now,             \* the clock, in seconds
    loc,             \* per request handler: position and local variables
    seen,            \* a reader running get_image: its two SELECTs
    ingested,        \* history: image id -> rendition rows of its ingestion
    reply            \* the response to the latest request on an image route

vars == <<files, tmpfiles, images, image_variants, sqlite_sequence, dbLock,
          now, loc, seen, ingested, reply>>

\* "file_path = None", and no open transaction
NoPath == <<>>
NoTx == [image |-> {}, variants |-> {}]

InitLoc ==
    [pc |-> "idle", req |-> None, file_path |-> NoPath, actual_media_type |-> None,
     warnings |-> <<>>, exif_data |-> None, ai_metadata |-> None,
     ai_error |-> None, ai_mode |-> None, ai_temp |-> {},
     variants |-> <<>>, variant_error |-> None, slug_base |-> None,
     slug |-> None, image_id |-> 0, tx |-> NoTx, resp |-> None]

InitSeen == [pc |-> "idle", image_id |-> 0, row |-> {}, variants |-> {}]

\* A response: the user the request was authenticated as (Anonymous on a
\* route that takes no credentials), the HTTP status, the title it carries
\* (get and update of the photographer routes) and the ids of the images it
\* lists (gallery).
Anonymous == 0
Response(caller, status, title, ids) ==
    [caller |-> caller, status |-> status, title |-> title, images |-> ids]
NoReply == Response(Anonymous, 0, <<>>, {})

EmptyStore ==
    /\ files = {}
    /\ images = {}
    /\ image_variants = {}
    /\ sqlite_sequence = 0
    /\ ingested = <<>>

InitRest ==
    /\ tmpfiles = {}
    /\ dbLock = {}
    /\ now = 0
    /\ loc = [p \in Procs |-> InitLoc]
    /\ seen = InitSeen
    /\ reply = NoReply

Init == EmptyStore /\ InitRest

(***************************************************************************)
(* ingest_image                                                            *)
(***************************************************************************)
ErrorResponse(code, detail) == [success |-> FALSE, code |-> code, detail |-> detail]

\* "if file_path and file_path.exists(): file_path.unlink()", the clean-up of
\* both except blocks of ingest_image
unlink_kept(fs, file_path) == fs
unlink_if_exists(fs, file_path) ==
    IF file_path # NoPath THEN fs \ {file_path} ELSE fs

TypeRejected(u) == u.content_type \notin allowed_types
SizeUnchecked(u) == FALSE
SizeRejected(u) == u.blob.len > max_size

\* Steps "Validate file type" and "Validate file size": no side effects.
Validate(p, u) ==
    /\ loc[p].pc = "idle"
    /\ loc' = [loc EXCEPT ![p] =
                 IF TypeRejected(u)
                 THEN [InitLoc EXCEPT !.pc = "done", !.req = u,
                         !.resp = ErrorResponse(VALIDATION_INVALID_TYPE, None)]
                 ELSE IF SizeRejected(u)
                 THEN [InitLoc EXCEPT !.pc = "done", !.req = u,
                         !.resp = ErrorResponse(VALIDATION_FILE_TOO_LARGE, None)]
                 ELSE [InitLoc EXCEPT !.pc = "save", !.req = u]]
    /\ UNCHANGED <<files, tmpfiles, images, image_variants, sqlite_sequence,
                   dbLock, now, seen, ingested,
                   reply>>

\* A format detection that corrects the type without telling the caller
SniffSilent(u) ==
    [media |-> IF Decodable(u.blob) THEN format_to_mime(u.blob.fmt) ELSE u.content_type,
     warnings |-> <<>>]

\* "Detect actual image format": the detected MIME type and the warning.
Sniff(u) ==
    IF ~Decodable(u.blob)
    THEN [media |-> u.content_type, warnings |-> <<>>]
    ELSE LET m == format_to_mime(u.blob.fmt)
         IN  [media |-> m,
              warnings |-> IF m # u.content_type THEN <<FORMAT_MISMATCH>> ELSE <<>>]

\* exif.extract_exif.  The values of the tags and of the aspect ratio are
\* abstracted to Value: the handler only tests them for null.
Value == "value"
ExifTags ==
    {"camera_make", "camera_model", "lens", "focal_length", "aperture",
     "shutter_speed", "iso", "date_taken", "location"}
ExifRecord(tags, width, height, aspect_ratio) ==
    [camera_make   |-> IF "camera_make" \in tags THEN Value ELSE None,
     camera_model  |-> IF "camera_model" \in tags THEN Value ELSE None,
     lens          |-> IF "lens" \in tags THEN Value ELSE None,
     focal_length  |-> IF "focal_length" \in tags THEN Value ELSE None,
     aperture      |-> IF "aperture" \in tags THEN Value ELSE None,
     shutter_speed |-> IF "shutter_speed" \in tags THEN Value ELSE None,
     iso           |-> IF "iso" \in tags THEN Value ELSE None,
     date_taken    |-> IF "date_taken" \in tags THEN Value ELSE None,
     location      |-> IF "location" \in tags THEN Value ELSE None,
     width |-> width, height |-> height, aspect_ratio |-> aspect_ratio]

Returned(value) == [raised |-> FALSE, value |-> value]
Raised == [raised |-> TRUE, value |-> None]

\* piexif.load reads JPEG, TIFF and WebP and raises InvalidImageDataError on
\* anything else.
PiexifLoads(blob) == blob.fmt \in {"jpeg", "tiff", "webp"}

\* The body of the outer try: Image.open, img.size, piexif.load and the
\* conversions.  The date and the GPS block have their own try/except, the
\* divisions of the rationals have none.
exif_try(blob) ==
    IF ~Decodable(blob) \/ blob.h = 0 \/ ~PiexifLoads(blob)
       \/ "rational" \in blob.exif.defects
    THEN Raised
    ELSE Returned(ExifRecord(
             IF ~blob.exif.present THEN {}
             ELSE ExifTags \ ((IF "date" \in blob.exif.defects
                               THEN {"date_taken"} ELSE {})
                              \cup (IF "gps" \in blob.exif.defects
                                    THEN {"location"} ELSE {})),
             blob.w, blob.h, Value))

\* "Fallback: at least return dimensions", the try of the except block
exif_fallback(blob) ==
    IF ~Decodable(blob) \/ blob.h = 0
    THEN Raised
    ELSE Returned(ExifRecord({}, blob.w, blob.h, Value))

\* The outer try alone, with neither except block
extract_exif_unguarded(blob) == exif_try(blob)

extract_exif(blob) ==
    IF ~exif_try(blob).raised THEN exif_try(blob)
    ELSE IF ~exif_fallback(blob).raised THEN exif_fallback(blob)
    ELSE Returned(ExifRecord({}, None, None, None))

\* The outer "except Exception" of ingest_image
Unexpected(p, detail) ==
    [loc EXCEPT ![p].pc = "done", ![p].resp = ErrorResponse(INTERNAL_ERROR, detail)]

\* "Save original file", format detection and EXIF extraction.  writeOk is the
\* environment's choice: FALSE when open() or write() raises.
SaveOriginal(p, writeOk) ==
    /\ loc[p].pc = "save"
    /\ LET u    == loc[p].req
           name == StoredName(now, u.blob, u.filename)
       IN  IF ~writeOk
           THEN /\ files' = unlink_if_exists(files, name)
                /\ loc' = [Unexpected(p, "write") EXCEPT ![p].file_path = name]
           ELSE IF extract_exif(u.blob).raised
           THEN /\ files' = unlink_if_exists(files \cup {name}, name)
                /\ loc' = [Unexpected(p, "extract_exif") EXCEPT ![p].file_path = name]
           ELSE /\ files' = files \cup {name}
                /\ loc' = [loc EXCEPT ![p].pc = "analyze",
                                      ![p].file_path = name,
                                      ![p].actual_media_type = Sniff(u).media,
                                      ![p].warnings = Sniff(u).warnings,
                                      ![p].exif_data = extract_exif(u.blob).value]
    /\ UNCHANGED <<tmpfiles, images, image_variants, sqlite_sequence, dbLock,
                   now, seen, ingested,
                   reply>>

\* mkstemp(suffix="_ai_temp.jpg", prefix=f"{base_name}_"): a fresh name
TempName(file_path) ==
    [prefix |-> Stem(file_path), k |-> Cardinality(tmpfiles), suffix |-> "_ai_temp.jpg"]

\* "Step 2: Analyze image with Claude Vision (may fail gracefully)"
Analyze(p, env) ==
    /\ loc[p].pc = "analyze"
    /\ LET u == loc[p].req
           r == analyze_image(u.blob, loc[p].file_path, env)
           t == TempName(loc[p].file_path)
       IN  /\ tmpfiles' = IF r.tmpLeft THEN tmpfiles \cup {t} ELSE tmpfiles
           /\ IF r.raised
              THEN /\ files' = unlink_if_exists(files, loc[p].file_path)
                   /\ loc' = [Unexpected(p, "analyze_image") EXCEPT
                                ![p].ai_mode = CaptionMode(u.blob, env)]
              ELSE /\ files' = files
                   /\ loc' = [loc EXCEPT
                                ![p].pc = "variants",
                                ![p].ai_metadata = r.meta,
                                ![p].ai_error = r.error,
                                ![p].ai_mode = CaptionMode(u.blob, env),
                                ![p].ai_temp = IF r.tmpCreated THEN {t} ELSE {},
                                ![p].warnings =
                                    IF r.error # None THEN Append(@, r.error) ELSE @]
    /\ UNCHANGED <<images, image_variants, sqlite_sequence, dbLock, now, seen,
                   ingested,
                   reply>>

\* ai_metadata.get('title', default)
GetTitle(meta, default) == IF "title" \in meta.fields THEN meta.title ELSE default

\* "Step 3: Generate WebP variants (may fail, but we continue)" and the slug
\* base.  encFail: the size classes whose encoding the environment fails.
Variants(p, encFail) ==
    /\ loc[p].pc = "variants"
    /\ LET u  == loc[p].req
           gv == generate_variants(u.blob, loc[p].file_path, encFail)
       IN  /\ files' = files \cup VariantFiles(gv.variants)
           /\ loc' = [loc EXCEPT
                        ![p].pc = "slug",
                        ![p].variants = gv.variants,
                        ![p].variant_error = gv.error,
                        ![p].warnings =
                            IF gv.error # None THEN Append(@, gv.error) ELSE @,
                        ![p].slug_base =
                            slugify(GetTitle(loc[p].ai_metadata, Stem(u.filename)))]
    /\ UNCHANGED <<tmpfiles, images, image_variants, sqlite_sequence, dbLock,
                   now, seen, ingested,
                   reply>>

(***************************************************************************)
(* Persistence: the relational store as get_db_connection uses it.  Every  *)
(* handler opens its own connection; a connection's inserts are seen by    *)
(* the others only after its commit, and SQLite admits one writer.         *)
(***************************************************************************)
\* A row inserted on a connection and the committed table the other
\* connections read: unchanged until "await db.commit()".
execute_autocommit(committed, row) == committed \cup {row}
execute_insert(committed, row) == committed

\* SCHEMA, table images: UNIQUE(user_id, slug)
UniqueOff(row) == FALSE
UniqueViolation(row) ==
    \E r \in images : r.user_id = row.user_id /\ r.slug = row.slug

\* get_db_connection never issues "PRAGMA foreign_keys = ON", so SQLite does
\* not enforce ON DELETE CASCADE on these connections.
foreign_keys == FALSE

\* slug LIKE 'base%' (LIKE is case-insensitive for ASCII; a slug base holds
\* no LIKE wildcard)
Like(slug, base) == StartsWith(Lower(slug), Lower(base))

\* A count that leaves out "user_id = ?"
SlugCountAllOwners(user_id, base) ==
    Cardinality({r \in images : Like(r.slug, base)})

\* "Check if slug exists, make it unique"
SlugCount(user_id, base) ==
    Cardinality({r \in images : r.user_id = user_id /\ Like(r.slug, base)})

AllocateSlug(user_id, base) ==
    IF SlugCount(user_id, base) > 0
    THEN base \o <<"-">> \o Str(SlugCount(user_id, base) + 1)
    ELSE base

ImageRow(p, id) ==
    LET l == loc[p]
    IN  [id |-> id, user_id |-> l.req.user_id, filename |-> l.file_path,
         slug |-> l.slug, original_filename |-> l.req.filename,
         title |-> GetTitle(l.ai_metadata, <<>>), src |-> l.ai_metadata.src,
         width |-> l.exif_data.width, height |-> l.exif_data.height,
         file_size |-> l.req.blob.len, published |-> FALSE, featured |-> FALSE]

VariantRow(id, v) ==
    [image_id |-> id, format |-> v.format, size |-> v.size,
     filename |-> v.filename, width |-> v.width, height |-> v.height]

VariantRows(id, vs) == {VariantRow(id, vs[i]) : i \in DOMAIN vs}

\* "except Exception as db_error": get_db_connection has rolled back and
\* closed the connection; the original file is removed and the structured
\* database error returned.
DbFailure(p, detail) ==
    /\ files' = unlink_if_exists(files, loc[p].file_path)
    /\ dbLock' = dbLock \ {p}
    /\ loc' = [loc EXCEPT ![p].pc = "done", ![p].tx = NoTx, ![p].image_id = 0,
                 ![p].resp = ErrorResponse(DATABASE_CONNECTION_FAILED, detail)]
    /\ UNCHANGED <<tmpfiles, sqlite_sequence, now, seen, ingested,
                   reply>>

\* What file_path.unlink() does in the clean-up of a failed call: it works
\* ("ok"), it raises in "except Exception as db_error" and works in the outer
\* "except Exception" ("raises_once"), or it raises in both ("raises").
UnlinkOutcomes == {"ok", "raises_once", "raises"}
UNHANDLED_EXCEPTION == "UNHANDLED_EXCEPTION"

\* "except Exception as db_error" when unlink may raise.  The exception of
\* unlink leaves the handler of db_error and is caught by the outer "except
\* Exception", which unlinks again and answers with internal_error; an
\* exception of that second unlink leaves ingest_image.
DbFailureUnlink(p, detail, unlink) ==
    /\ files' = IF unlink = "raises" THEN files
                ELSE unlink_if_exists(files, loc[p].file_path)
    /\ dbLock' = dbLock \ {p}
    /\ loc' = [loc EXCEPT ![p].pc = "done", ![p].tx = NoTx, ![p].image_id = 0,
                 ![p].resp =
                    CASE unlink = "ok" ->
                            ErrorResponse(DATABASE_CONNECTION_FAILED, detail)
                      [] unlink = "raises_once" ->
                            ErrorResponse(INTERNAL_ERROR, "unlink")
                      [] OTHER ->
                            ErrorResponse(UNHANDLED_EXCEPTION, "unlink")]
    /\ UNCHANGED <<tmpfiles, sqlite_sequence, now, seen, ingested,
                   reply>>

\* "Insert main image record" raises and the clean-up meets unlink
InsertImageRaises(p, unlink) ==
    /\ loc[p].pc = "insert"
    /\ loc[p].file_path \in files
    /\ DbFailureUnlink(p, "fault", unlink)
    /\ UNCHANGED <<images, image_variants>>

\* "async with get_db_connection() as db" and the SELECT COUNT(*)
SlugCheck(p, fault) ==
    /\ loc[p].pc = "slug"
    /\ IF fault
       THEN DbFailure(p, "fault") /\ UNCHANGED <<images, image_variants>>
       ELSE /\ loc' = [loc EXCEPT ![p].pc = "insert",
                         ![p].slug = AllocateSlug(loc[p].req.user_id, loc[p].slug_base)]
            /\ UNCHANGED <<files, tmpfiles, images, image_variants,
                           sqlite_sequence, dbLock, now, seen, ingested,
                   reply>>

\* "Insert main image record": the statement opens the write transaction.
InsertImage(p, fault) ==
    /\ loc[p].pc = "insert"
    /\ LET id  == sqlite_sequence + 1
           row == ImageRow(p, id)
       IN  IF fault
           THEN DbFailure(p, "fault") /\ UNCHANGED <<images, image_variants>>
           ELSE IF dbLock # {}
           THEN DbFailure(p, "locked") /\ UNCHANGED <<images, image_variants>>
           ELSE IF UniqueViolation(row)
           THEN DbFailure(p, "unique") /\ UNCHANGED <<images, image_variants>>
           ELSE /\ images' = execute_insert(images, row)
                /\ dbLock' = {p}
                /\ loc' = [loc EXCEPT ![p].pc = "insert_variants",
                             ![p].image_id = id,
                             ![p].tx = [image |-> {row}, variants |-> {}]]
                /\ ingested' = [i \in DOMAIN ingested \cup {id} |->
                                  IF i = id THEN VariantRows(id, loc[p].variants)
                                  ELSE ingested[i]]
                /\ UNCHANGED <<files, tmpfiles, image_variants, sqlite_sequence,
                               now, seen,
                   reply>>

\* "Insert variant records": the loop over variants, in the same transaction.
InsertVariants(p, fault) ==
    /\ loc[p].pc = "insert_variants"
    /\ IF fault
       THEN DbFailure(p, "fault") /\ UNCHANGED <<images, image_variants>>
       ELSE /\ loc' = [loc EXCEPT ![p].pc = "commit",
                         ![p].tx = [@ EXCEPT !.variants =
                                      VariantRows(loc[p].image_id, loc[p].variants)]]
            /\ UNCHANGED <<files, tmpfiles, images, image_variants,
                           sqlite_sequence, dbLock, now, seen, ingested,
                   reply>>

\* "Build successful response with warnings": "warnings" is a key of the
\* response only when the list is not empty.
ResponseKeys ==
    {"success", "image_id", "slug", "filename", "title", "caption",
     "description", "tags", "category", "width", "height", "exif",
     "variants_generated"}

SuccessResponse(p) ==
    LET l == loc[p]
    IN  [success |-> TRUE, code |-> None, image_id |-> l.image_id, slug |-> l.slug,
         filename |-> l.file_path, title |-> GetTitle(l.ai_metadata, <<>>),
         variants_generated |-> Len(l.variants),
         warnings |-> l.warnings,
         keys |-> ResponseKeys \cup (IF l.warnings # <<>> THEN {"warnings"} ELSE {})]

\* "await db.commit()" and the response
Commit(p, fault) ==
    /\ loc[p].pc = "commit"
    /\ IF fault
       THEN DbFailure(p, "fault") /\ UNCHANGED <<images, image_variants>>
       ELSE /\ images' = images \cup loc[p].tx.image
            /\ image_variants' = image_variants \cup loc[p].tx.variants
            /\ sqlite_sequence' = loc[p].image_id
            /\ dbLock' = {}
            /\ loc' = [loc EXCEPT ![p].pc = "done", ![p].tx = NoTx,
                         ![p].resp = SuccessResponse(p)]
            /\ UNCHANGED <<files, tmpfiles, now, seen, ingested,
                   reply>>

\* The handler has answered; the worker takes the next request.
NextRequest(p) ==
    /\ loc[p].pc = "done"
    /\ loc' = [loc EXCEPT ![p] = InitLoc]
    /\ UNCHANGED <<files, tmpfiles, images, image_variants, sqlite_sequence,
                   dbLock, now, seen, ingested,
                   reply>>

(***************************************************************************)
(* The delete routes and a reader                                          *)
(***************************************************************************)
CascadeDelete(rows, id) ==
    IF foreign_keys THEN {v \in rows : v.image_id # id} ELSE rows

\* Status codes of the responses
HTTP_OK == 200
HTTP_NOT_FOUND == 404
HTTP_BAD_REQUEST == 400

\* UPDATE images SET <field> = <value> WHERE ...: the table after the
\* statement, rows being the rows the WHERE clause selects
UpdateWhere(rows, field, value) ==
    {IF r \in rows THEN [r EXCEPT ![field] = value] ELSE r : r \in images}

\* routes/ingestion.py delete_image: DELETE /api/images/{image_id}.  The
\* route takes no credentials.
delete_image(id) ==
    /\ dbLock = {}
    /\ IF \E row \in images : row.id = id
       THEN /\ images' = {r \in images : r.id # id}
            /\ image_variants' = CascadeDelete(image_variants, id)
            /\ files' = files \ ({r.filename : r \in {x \in images : x.id = id}} \cup
                                   {v.filename : v \in {w \in image_variants : w.image_id = id}})
            /\ reply' = Response(Anonymous, HTTP_OK, <<>>, {})
       ELSE /\ reply' = Response(Anonymous, HTTP_NOT_FOUND, <<>>, {})
            /\ UNCHANGED <<images, image_variants, files>>
    /\ UNCHANGED <<tmpfiles, sqlite_sequence, dbLock, now, loc, seen, ingested>>

\* routes/ingestion.py set_visibility: POST /api/images/{image_id}/publish
set_visibility(id, published) ==
    /\ dbLock = {}
    /\ images' = UpdateWhere({r \in images : r.id = id},
                                     "published", published)
    /\ reply' = Response(Anonymous, HTTP_OK, <<>>, {})
    /\ UNCHANGED <<files, tmpfiles, image_variants, sqlite_sequence, dbLock, now,
                   loc, seen, ingested>>

\* routes/ingestion.py toggle_featured: POST /api/images/{image_id}/featured
toggle_featured(id, featured) ==
    /\ dbLock = {}
    /\ images' = UpdateWhere({r \in images : r.id = id},
                                     "featured", featured)
    /\ reply' = Response(Anonymous, HTTP_OK, <<>>, {})
    /\ UNCHANGED <<files, tmpfiles, image_variants, sqlite_sequence, dbLock, now,
                   loc, seen, ingested>>

\* routes/ingestion.py update_image_metadata: PATCH /api/images/{image_id}
\* with a title
update_image_metadata(id, title) ==
    /\ dbLock = {}
    /\ images' = UpdateWhere({r \in images : r.id = id},
                                     "title", title)
    /\ reply' = Response(Anonymous, HTTP_OK, <<>>, {})
    /\ UNCHANGED <<files, tmpfiles, image_variants, sqlite_sequence, dbLock, now,
                   loc, seen, ingested>>

\* routes/photographer.py verify_image_ownership
verify_image_ownership(id, user_id) ==
    \E row \in images : row.id = id /\ row.user_id = user_id

\* routes/photographer.py get_image: GET /api/photographer/images/{id} as the
\* authenticated user user_id
get_image_response(id, user_id, rows) ==
    LET own == {r \in rows : r.id = id /\ r.user_id = user_id}
    IN  IF verify_image_ownership(id, user_id) /\ own # {}
        THEN Response(user_id, HTTP_OK, (CHOOSE r \in own : TRUE).title, {})
        ELSE Response(user_id, HTTP_NOT_FOUND, <<>>, {})

photographer_get_image(id, user_id) ==
    /\ reply' = get_image_response(id, user_id, images)
    /\ UNCHANGED <<files, tmpfiles, images, image_variants, sqlite_sequence,
                   dbLock, now, loc, seen, ingested>>

\* A PUT request: the title it carries as a query parameter and the title
\* it carries in its JSON body, each present or not.
Field(present, title) == [present |-> present, title |-> title]
UpdateRequest(query, json) == [query |-> query, json |-> json]
TitleInQuery(title) == UpdateRequest(Field(TRUE, title), Field(FALSE, <<>>))
TitleInBody(title) == UpdateRequest(Field(FALSE, <<>>), Field(TRUE, title))

\* routes/photographer.py update_image: PUT /api/photographer/images/{id}.
\* "title: Optional[str] = None" declares a query parameter; the handler
\* declares no body, so a JSON body is not read.  It answers with get_image.
photographer_update_image(id, user_id, req) ==
    /\ dbLock = {}
    /\ IF ~verify_image_ownership(id, user_id)
       THEN /\ reply' = Response(user_id, HTTP_NOT_FOUND, <<>>, {})
            /\ UNCHANGED images
       ELSE IF ~req.query.present
       THEN /\ reply' = Response(user_id, HTTP_BAD_REQUEST, <<>>, {})
            /\ UNCHANGED images
       ELSE /\ images' = UpdateWhere({r \in images : r.id = id /\ r.user_id = user_id},
                                     "title", req.query.title)
            /\ reply' = get_image_response(id, user_id, images')
    /\ UNCHANGED <<files, tmpfiles, image_variants, sqlite_sequence, dbLock, now,
                   loc, seen, ingested>>

\* routes/photographer.py delete_image: DELETE /api/photographer/images/{id}
photographer_delete_image(id, user_id) ==
    /\ dbLock = {}
    /\ IF verify_image_ownership(id, user_id)
       THEN /\ images' = {r \in images : ~(r.id = id /\ r.user_id = user_id)}
            /\ image_variants' = CascadeDelete(image_variants, id)
            /\ reply' = Response(user_id, HTTP_OK, <<>>, {})
       ELSE /\ reply' = Response(user_id, HTTP_NOT_FOUND, <<>>, {})
            /\ UNCHANGED <<images, image_variants>>
    /\ UNCHANGED <<files, tmpfiles, sqlite_sequence, dbLock, now, loc, seen,
                   ingested>>

\* routes/photographer.py toggle_publish: PATCH .../images/{id}/publish
toggle_publish(id, user_id, published) ==
    /\ dbLock = {}
    /\ IF verify_image_ownership(id, user_id)
       THEN /\ images' = UpdateWhere({r \in images : r.id = id /\ r.user_id = user_id},
                                     "published", published)
            /\ reply' = Response(user_id, HTTP_OK, <<>>, {})
       ELSE /\ reply' = Response(user_id, HTTP_NOT_FOUND, <<>>, {})
            /\ UNCHANGED images
    /\ UNCHANGED <<files, tmpfiles, image_variants, sqlite_sequence, dbLock, now,
                   loc, seen, ingested>>

\* A gallery query without "AND i.published = 1"
get_gallery_unfiltered(user_id) ==
    /\ reply' = Response(Anonymous, HTTP_OK, <<>>,
                         {r.id : r \in {x \in images : x.user_id = user_id}})
    /\ UNCHANGED <<files, tmpfiles, images, image_variants, sqlite_sequence,
                   dbLock, now, loc, seen, ingested>>

\* routes/gallery.py get_published_gallery: GET /api/gallery/published; the
\* rows of "WHERE i.user_id = ? AND i.published = 1"
get_published_gallery(user_id) ==
    /\ reply' = Response(Anonymous, HTTP_OK, <<>>,
                         {r.id : r \in {x \in images : x.user_id = user_id /\ x.published}})
    /\ UNCHANGED <<files, tmpfiles, images, image_variants, sqlite_sequence,
                   dbLock, now, loc, seen, ingested>>

\* routes/ingestion.py get_image: the first SELECT (404 when there is no row)
get_image_row(id) ==
    /\ seen.pc = "idle"
    /\ seen' = IF \E r \in images : r.id = id
               THEN [pc |-> "variants", image_id |-> id,
                     row |-> {r \in images : r.id = id}, variants |-> {}]
               ELSE [pc |-> "idle", image_id |-> id, row |-> {}, variants |-> {}]
    /\ UNCHANGED <<files, tmpfiles, images, image_variants, sqlite_sequence,
                   dbLock, now, loc, ingested,
                   reply>>

\* get_image: the second SELECT, and the response
get_image_variants ==
    /\ seen.pc = "variants"
    /\ seen' = [seen EXCEPT !.pc = "idle",
                  !.variants = {v \in image_variants : v.image_id = seen.image_id}]
    /\ UNCHANGED <<files, tmpfiles, images, image_variants, sqlite_sequence,
                   dbLock, now, loc, ingested,
                   reply>>

Tick ==
    /\ now < MaxClock
    /\ now' = now + 1
    /\ UNCHANGED <<files, tmpfiles, images, image_variants, sqlite_sequence,
                   dbLock, loc, seen, ingested, reply>>

(***************************************************************************)
(* Spec: concurrent requests.  Two handlers ingest healthy uploads of the  *)
(* two owners while images are deleted and the clock advances; every       *)
(* database statement may fail.                                            *)
(***************************************************************************)
ConcUploads ==
    {Upload(u, FileMyPic, "image/jpeg", BlobLandscape) : u \in Users}

ImageIds == 1 .. (MaxImages + 1)

Ingest(p) ==
    \/ \E u \in ConcUploads : sqlite_sequence < MaxImages /\ Validate(p, u)
    \/ SaveOriginal(p, TRUE)
    \/ Analyze(p, Healthy(TitleAB))
    \/ Variants(p, {})
    \/ \E fault \in BOOLEAN : SlugCheck(p, fault)
    \/ \E fault \in BOOLEAN : InsertImage(p, fault)
    \/ \E fault \in BOOLEAN : InsertVariants(p, fault)
    \/ \E fault \in BOOLEAN : Commit(p, fault)
    \/ NextRequest(p)

Next ==
    \/ \E p \in Procs : Ingest(p)
    \/ \E r \in images : delete_image(r.id)
    \/ \E r \in images : photographer_delete_image(r.id, r.user_id)
    \/ Tick

Spec == Init /\ [][Next]_vars

(***************************************************************************)
(* SpecRead: the same ingestions interleaved with a reader (get_image).    *)
(***************************************************************************)
NextRead ==
    \/ \E p \in Procs : Ingest(p)
    \/ \E id \in ImageIds : get_image_row(id)
    \/ get_image_variants

SpecRead == Init /\ [][NextRead]_vars

(***************************************************************************)
(* SpecPipe: one ingestion call, every upload and every behaviour of the   *)
(* file system, the captioning service, the encoder and the database,      *)
(* starting from an empty store or from a store that holds one image.      *)
(***************************************************************************)
ContentTypes == {"image/jpeg", "image/jpg", "image/png", "image/gif"}

Blobs == {BlobLandscape, BlobSmallPng, BlobCorrupt, BlobTooLarge, BlobAtLimit,
          BlobOverLimit, BlobGif, BlobSliver, BlobFloat}

PipeUploads ==
    {Upload(1, FileMyPic, c, b) : c \in ContentTypes, b \in Blobs}
        \cup {Upload(1, FilePlain, "image/png", b) : b \in {BlobSmallPng, BlobLandscape}}
        \cup {Upload(1, FileMyPic, "image/jpeg", BlobBadExif)}

ApiObjects ==
    {ApiObject(required_fields, TitleAB), ApiObject(required_fields, TitleA),
     ApiObject(required_fields \ {"title"}, <<>>), ApiObject({}, <<>>)}

PipeCaptionEnvs ==
    {CaptionEnv(key, tmp, readOk, api, body, obj) :
        key \in BOOLEAN, tmp \in {"ok", "mkstemp_fail", "save_fail"},
        readOk \in BOOLEAN, api \in {"ok", "auth", "rate", "connection", "crash"},
        body \in {"object", "not_json", "not_object"}, obj \in ApiObjects}

\* The store after user 1 ingested BlobLandscape as FileMyPic at second 0
\* with a healthy captioning service answering TitleAB.
PriorName == StoredName(0, BlobLandscape, FileMyPic)
PriorVariants == generate_variants(BlobLandscape, PriorName, {}).variants
PriorRow ==
    [id |-> 1, user_id |-> 1, filename |-> PriorName, slug |-> slugify(TitleAB),
     original_filename |-> FileMyPic, title |-> TitleAB, src |-> "api",
     width |-> BlobLandscape.w, height |-> BlobLandscape.h,
     file_size |-> BlobLandscape.len, published |-> FALSE, featured |-> FALSE]

PriorStore ==
    /\ files = {PriorName} \cup VariantFiles(PriorVariants)
    /\ images = {PriorRow}
    /\ image_variants = VariantRows(1, PriorVariants)
    /\ sqlite_sequence = 1
    /\ ingested = [i \in {1} |-> VariantRows(1, PriorVariants)]

InitPipe == (EmptyStore \/ PriorStore) /\ InitRest

NextPipe ==
    \/ \E u \in PipeUploads : Validate(1, u)
    \/ \E writeOk \in BOOLEAN : SaveOriginal(1, writeOk)
    \/ \E env \in PipeCaptionEnvs : Analyze(1, env)
    \/ \E encFail \in SUBSET SizeNames : Variants(1, encFail)
    \/ \E fault \in BOOLEAN : SlugCheck(1, fault)
    \/ \E fault \in BOOLEAN : InsertImage(1, fault)
    \/ \E fault \in BOOLEAN : InsertVariants(1, fault)
    \/ \E fault \in BOOLEAN : Commit(1, fault)
    \/ Tick

SpecPipe == InitPipe /\ [][NextPipe]_vars

(***************************************************************************)
(* SpecSlug: one handler ingests one upload after the other, for both      *)
(* owners and with titles whose slugs are prefixes of one another, while   *)
(* images are deleted.  No statement fails except by a constraint.         *)
(***************************************************************************)
SlugTitles == {TitleA, TitleAB, TitleA2}

NextSlug ==
    \/ \E u \in ConcUploads : sqlite_sequence < MaxImages + 2 /\ Validate(1, u)
    \/ SaveOriginal(1, TRUE)
    \/ \E t \in SlugTitles : Analyze(1, Healthy(t))
    \/ Variants(1, {})
    \/ SlugCheck(1, FALSE)
    \/ InsertImage(1, FALSE)
    \/ InsertVariants(1, FALSE)
    \/ Commit(1, FALSE)
    \/ NextRequest(1)
    \/ \E r \in images : delete_image(r.id)

SpecSlug == Init /\ [][NextSlug]_vars

(***************************************************************************)
(* SpecSizes: one healthy ingestion of an image of every width and height  *)
(* of a grid around the target widths, with every behaviour of the         *)
(* encoder.                                                                *)
(***************************************************************************)
GridWidths == <<300, 400, 401, 799, 800, 801, 1199, 1200, 1201, 3000>>
GridHeights == <<2, 200, 533, 800, 2000, 3001>>
Digit == <<"0", "1", "2", "3", "4", "5", "6", "7", "8", "9">>

GridBlob(i, j) ==
    Blob(1 * MiB, "jpeg", GridWidths[i], GridHeights[j], TRUE, <<Digit[i], Digit[j]>>)

SizeUploads ==
    {Upload(1, FileMyPic, "image/jpeg", GridBlob(i, j)) :
        i \in DOMAIN GridWidths, j \in DOMAIN GridHeights}

NextSizes ==
    \/ \E u \in SizeUploads : Validate(1, u)
    \/ SaveOriginal(1, TRUE)
    \/ Analyze(1, Healthy(TitleAB))
    \/ \E encFail \in SUBSET SizeNames : Variants(1, encFail)
    \/ SlugCheck(1, FALSE)
    \/ InsertImage(1, FALSE)
    \/ InsertVariants(1, FALSE)
    \/ Commit(1, FALSE)

SpecSizes == Init /\ [][NextSizes]_vars

(***************************************************************************)
(* SpecCleanup: one ingestion of every upload with a healthy captioning    *)
(* service, whose INSERT may raise while the file system may refuse the    *)
(* compensating unlink.                                                    *)
(***************************************************************************)
NextCleanup ==
    \/ \E u \in PipeUploads : Validate(1, u)
    \/ SaveOriginal(1, TRUE)
    \/ Analyze(1, Healthy(TitleAB))
    \/ \E encFail \in SUBSET SizeNames : Variants(1, encFail)
    \/ SlugCheck(1, FALSE)
    \/ InsertImage(1, FALSE)
    \/ \E unlink \in UnlinkOutcomes : InsertImageRaises(1, unlink)
    \/ InsertVariants(1, FALSE)
    \/ Commit(1, FALSE)
    \/ Tick

SpecCleanup == InitPipe /\ [][NextCleanup]_vars

(***************************************************************************)
(* SpecApi: a sequence of requests.  Uploads of both owners are ingested   *)
(* one after the other; between ingestions the photographer routes are     *)
(* called by either user, the /api/images routes by anybody, and the       *)
(* public gallery is read, for ids that exist and ids that do not.         *)
(***************************************************************************)
Quiet == \A p \in Procs : loc[p].pc = "idle"
UpdateRequests == {TitleInQuery(TitleA), TitleInBody(TitleA)}

NextApi ==
    \/ \E u \in ConcUploads : sqlite_sequence < MaxImages + 1 /\ Validate(1, u)
    \/ SaveOriginal(1, TRUE)
    \/ Analyze(1, Healthy(TitleAB))
    \/ Variants(1, {})
    \/ SlugCheck(1, FALSE)
    \/ InsertImage(1, FALSE)
    \/ InsertVariants(1, FALSE)
    \/ Commit(1, FALSE)
    \/ NextRequest(1)
    \/ Quiet /\ \E id \in ImageIds, u \in Users : photographer_get_image(id, u)
    \/ Quiet /\ \E id \in ImageIds, u \in Users, req \in UpdateRequests :
                    photographer_update_image(id, u, req)
    \/ Quiet /\ \E id \in ImageIds, u \in Users : photographer_delete_image(id, u)
    \/ Quiet /\ \E id \in ImageIds, u \in Users, b \in BOOLEAN :
                    toggle_publish(id, u, b)
    \/ Quiet /\ \E id \in ImageIds, b \in BOOLEAN : set_visibility(id, b)
    \/ Quiet /\ \E id \in ImageIds, b \in BOOLEAN : toggle_featured(id, b)
    \/ Quiet /\ \E id \in ImageIds : update_image_metadata(id, TitleA)
    \/ Quiet /\ \E id \in ImageIds : delete_image(id)
    \/ Quiet /\ \E u \in Users : get_published_gallery(u)

SpecApi == Init /\ [][NextApi]_vars

(***************************************************************************)
(* Properties of one ingestion call (SpecPipe)                             *)
(***************************************************************************)
Finished(p) == loc[p].pc = "done"
Succeeded(p) == Finished(p) /\ loc[p].resp.success
Failed(p) == Finished(p) /\ ~loc[p].resp.success

RowsOf(id) == {r \in images : r.id = id}
VariantsOf(id) == {v \in image_variants : v.image_id = id}
ZeroRenditions(p) == Finished(p) /\ loc[p].variant_error # None

C3_InsertFailureRemovesAllFiles ==
    \A p \in Procs :
        (Failed(p) /\ loc[p].resp.code = DATABASE_CONNECTION_FAILED) =>
            /\ loc[p].file_path \notin files
            /\ VariantFiles(loc[p].variants) \cap files = {}

\* What the claims call an invalid upload: a declared content type outside
\* {image/jpeg, image/jpg, image/png}, or more than 20 MiB of bytes.
BadType(u) == u.content_type \notin {"image/jpeg", "image/jpg", "image/png"}
TooLarge(u) == u.blob.len > 20 * MiB

\* C4: an upload with a bad declared type or more than 20 MiB is answered in
\* one step with VALIDATION_INVALID_TYPE or VALIDATION_FILE_TOO_LARGE, and that
\* step writes neither the asset store nor the relational store; such a call
\* never holds a stored path or an open transaction.
C4_InvalidUploadWritesNothing ==
    /\ [](\A p \in Procs :
            (loc[p].pc # "idle" /\ (BadType(loc[p].req) \/ TooLarge(loc[p].req))) =>
                /\ Failed(p)
                /\ loc[p].resp.code = (IF BadType(loc[p].req)
                                       THEN VALIDATION_INVALID_TYPE
                                       ELSE VALIDATION_FILE_TOO_LARGE)
                /\ loc[p].file_path = NoPath
                /\ loc[p].tx = NoTx)
    /\ [][\A p \in Procs :
            (loc[p].pc = "idle" /\ loc'[p].pc # "idle"
                /\ (BadType(loc'[p].req) \/ TooLarge(loc'[p].req))) =>
                UNCHANGED <<files, tmpfiles, images, image_variants,
                            sqlite_sequence, dbLock>>]_vars

\* C4 witness: a well-typed upload of more than 20 MiB has been rejected
\* while the stores hold an earlier record and its files.
C4_Witness ==
    \E p \in Procs :
        /\ Failed(p)
        /\ loc[p].resp.code = VALIDATION_FILE_TOO_LARGE
        /\ ~BadType(loc[p].req)
        /\ images # {}
        /\ files # {}

\* A call whose captioning did not return the service's object.
CaptionFailed(p) == loc[p].ai_mode \notin {"None", "none"}
CaptionCodes ==
    {AUTH_MISSING_KEY, AUTH_INVALID_KEY, RATE_CLAUDE_LIMIT, EXTERNAL_CLAUDE_ERROR}
WarningsWith(p, codes) ==
    {k \in DOMAIN loc[p].warnings : loc[p].warnings[k] \in codes}

\* C5: a failure of the captioning service never fails the ingestion.  No
\* call ends with an error raised by the captioning step; a call whose
\* captioning failed carries exactly one captioning warning, whose code names
\* the failure (AUTH_INVALID_KEY for a rejected key, AUTH_MISSING_KEY for a
\* missing one, RATE_CLAUDE_LIMIT for a rate limit), and its committed record
\* is enriched from the fallback alone; a call whose captioning succeeded
\* carries no captioning warning and is enriched from the service alone.
C5_CaptionFailureIsAWarning ==
    \A p \in Procs :
        /\ Failed(p) => loc[p].resp.detail # "analyze_image"
        /\ loc[p].pc \in {"variants", "slug", "insert", "insert_variants",
                          "commit"} \/ Succeeded(p) =>
              /\ CaptionFailed(p) =>
                    /\ Cardinality(WarningsWith(p, CaptionCodes)) = 1
                    /\ loc[p].ai_error \in CaptionCodes
                    /\ loc[p].ai_mode = "AuthenticationError" <=>
                           loc[p].ai_error = AUTH_INVALID_KEY
                    /\ loc[p].ai_mode = "missing_key" <=>
                           loc[p].ai_error = AUTH_MISSING_KEY
                    /\ loc[p].ai_mode = "RateLimitError" <=>
                           loc[p].ai_error = RATE_CLAUDE_LIMIT
                    /\ WarningsWith(p, {loc[p].ai_error}) # {}
                    /\ loc[p].ai_metadata.src = "fallback"
              /\ ~CaptionFailed(p) =>
                    /\ WarningsWith(p, CaptionCodes) = {}
                    /\ loc[p].ai_metadata.src = "api"
        /\ Succeeded(p) =>
              /\ \A r \in RowsOf(loc[p].resp.image_id) :
                    r.src = (IF CaptionFailed(p) THEN "fallback" ELSE "api")
              /\ (CaptionFailed(p) /\ Sniff(loc[p].req).warnings = <<>>
                     /\ loc[p].variant_error = None) =>
                    loc[p].resp.warnings = <<loc[p].ai_error>>

\* C5 witness: the service rejected the key and the call returned success
\* with the single warning AUTH_INVALID_KEY.
C5_Witness ==
    \E p \in Procs :
        /\ Succeeded(p)
        /\ loc[p].ai_mode = "AuthenticationError"
        /\ loc[p].resp.warnings = <<AUTH_INVALID_KEY>>
        /\ RowsOf(loc[p].resp.image_id) # {}

\* C6 as stated: when captioning failed, the title stored and returned is
\* the humanized stem of the filename the user submitted.
C6_FallbackTitleFromSubmittedName ==
    \A p \in Procs :
        (Succeeded(p) /\ CaptionFailed(p)) =>
            /\ loc[p].resp.title = Humanize(Stem(loc[p].req.filename))
            /\ \A r \in RowsOf(loc[p].resp.image_id) :
                  r.title = Humanize(Stem(loc[p].req.filename))

\* A call whose analyze_image has ended.
Analyzed(p) == loc[p].ai_mode # "None"

\* C7: analyze_image never raises to the pipeline.  Whatever the key, the
\* downscaling, the file read, the service and its response do, it returns
\* metadata holding the five required fields, and a typed error exactly when
\* the metadata is the fallback.
C7_AnalyzeImageReturnsAPair ==
    \A p \in Procs :
        /\ ~(Failed(p) /\ loc[p].resp.detail = "analyze_image")
        /\ Analyzed(p) =>
              /\ required_fields \subseteq loc[p].ai_metadata.fields
              /\ loc[p].ai_error # None <=> loc[p].ai_metadata.src = "fallback"
              /\ loc[p].ai_error # None => loc[p].ai_error \in CaptionCodes
              /\ CaptionFailed(p) <=> loc[p].ai_metadata.src = "fallback"

\* C7 witness: an exception that is no service error (the failed read of the
\* image, or the failed downscaling) ended the call, and the pipeline went on
\* with the fallback.
C7_Witness ==
    \E p \in Procs :
        /\ loc[p].pc = "variants"
        /\ loc[p].ai_mode \in {"OSError", "AttributeError", "RuntimeError"}
        /\ loc[p].ai_metadata.src = "fallback"
        /\ loc[p].ai_error = EXTERNAL_CLAUDE_ERROR

\* C8 as stated: once analyze_image has returned, no temporary downscaled
\* copy it created remains, whatever failed.
C8_NoTemporaryCopyRemains ==
    \A p \in Procs : Analyzed(p) => loc[p].ai_temp \cap tmpfiles = {}

(***************************************************************************)
(* Properties of concurrent requests (SpecRead, Spec)                      *)
(***************************************************************************)
\* C9: persistence is atomic to readers.  A committed image row always has
\* all the rendition rows its ingestion inserted, so a reader that saw the
\* row sees them all; the rows of an open transaction are in no committed
\* table; and a step that ends a call in failure leaves the committed tables
\* as they were.
C9_PersistenceIsAtomic ==
    /\ [](\A id \in DOMAIN ingested : RowsOf(id) # {} => VariantsOf(id) = ingested[id])
    /\ []((seen.pc = "idle" /\ seen.row # {}) =>
              seen.variants = ingested[seen.image_id])
    /\ [](\A p \in Procs :
              /\ loc[p].tx.image \cap images = {}
              /\ loc[p].tx.variants \cap image_variants = {})
    /\ [][\A p \in Procs :
              (loc[p].pc # "done" /\ loc'[p].pc = "done" /\ ~loc'[p].resp.success) =>
                  UNCHANGED <<images, image_variants>>]_vars

\* C9 witness: a reader has read a record with its three rendition rows
\* while another call failed after its image row was inserted.
C9_Witness ==
    /\ seen.pc = "idle"
    /\ seen.row # {}
    /\ Cardinality(seen.variants) = 3
    /\ \E p \in Procs :
          /\ Failed(p)
          /\ loc[p].resp.code = DATABASE_CONNECTION_FAILED
          /\ loc[p].slug # None

\* C10: no two image records of the same owner have the same slug, whatever
\* the interleaving of ingestions and deletions.
C10_SlugUniquePerOwner ==
    \A a \in images : \A b \in images :
        (a.user_id = b.user_id /\ a.slug = b.slug) => a = b

\* C10 witness: two calls of one owner allocated the same slug; one is
\* committed and the store rejected the other.
C10_Witness ==
    \E p \in Procs : \E r \in images :
        /\ Failed(p)
        /\ loc[p].resp.detail = "unique"
        /\ r.user_id = loc[p].req.user_id
        /\ r.slug = loc[p].slug

(***************************************************************************)
(* Properties of slug allocation (SpecSlug)                                *)
(***************************************************************************)
\* The slugs an owner holds, and those that start with a base
Held(u) == {r.slug : r \in {x \in images : x.user_id = u}}
IsPrefix(base, slug) ==
    Len(base) <= Len(slug) /\ SubSeq(slug, 1, Len(base)) = base
PrefixHeld(u, base) == {sl \in Held(u) : IsPrefix(base, sl)}

\* C11 as stated: with no concurrent ingestion, the slug a call has allocated
\* differs from every slug its owner holds.
C11_AllocatedSlugIsFresh ==
    \A p \in Procs :
        loc[p].pc = "insert" => loc[p].slug \notin Held(loc[p].req.user_id)

\* C12: when the owner holds no slug that starts with the base, the call is
\* allocated the base itself, whatever other owners hold; when the only such
\* slug the owner holds is the base, the call is allocated base-2.
C12_BaseThenBase2 ==
    [][\A p \in Procs :
          (loc[p].pc = "slug" /\ loc'[p].pc = "insert") =>
              LET u    == loc[p].req.user_id
                  base == loc[p].slug_base
              IN  /\ PrefixHeld(u, base) = {} => loc'[p].slug = base
                  /\ PrefixHeld(u, base) = {base} =>
                         loc'[p].slug = base \o <<"-", "2">>]_vars

\* C12 witness: one owner's two ingestions of the same title are committed as
\* a-b and then a-b-2, while the other owner holds a-b as well.
C12_Witness ==
    \E a \in images : \E b \in images : \E c \in images :
        /\ a.user_id = b.user_id
        /\ c.user_id # a.user_id
        /\ a.id < b.id
        /\ c.id < a.id
        /\ a.slug = slugify(TitleAB)
        /\ b.slug = slugify(TitleAB) \o <<"-", "2">>
        /\ c.slug = slugify(TitleAB)

(***************************************************************************)
(* Properties of the image routes (SpecApi)                                *)
(***************************************************************************)
Foreign(id, u) == \E r \in images : r.id = id /\ r.user_id # u
Missing(id) == \A r \in images : r.id # id
Owned(id, u) == \E r \in images : r.id = id /\ r.user_id = u
PhotographerRequest(id, u) ==
    \/ photographer_get_image(id, u)
    \/ \E req \in UpdateRequests : photographer_update_image(id, u, req)
    \/ photographer_delete_image(id, u)
    \/ \E b \in BOOLEAN : toggle_publish(id, u, b)

\* C13 as stated: on the photographer routes a request of user A for an image
\* of another user, or for an image that does not exist, is answered 404 and
\* changes no record; the owner's own update, carrying a title, is answered
\* 200 with the new title, which the record then holds.
C13_PhotographerRoutesCheckOwner ==
    [][\A id \in ImageIds : \A u \in Users :
          /\ (PhotographerRequest(id, u) /\ (Foreign(id, u) \/ Missing(id))) =>
                /\ reply'.status = HTTP_NOT_FOUND
                /\ UNCHANGED <<images, image_variants, files>>
          /\ \A req \in UpdateRequests :
                (photographer_update_image(id, u, req) /\ Owned(id, u)) =>
                    /\ reply'.status = HTTP_OK
                    /\ reply'.title = TitleA
                    /\ \E r \in images' :
                          r.id = id /\ r.user_id = u /\ r.title = TitleA]_vars

\* C14 as stated: a step that changes or deletes an image record belongs to
\* a request authenticated as that image's owner.
C14_OnlyOwnerMutates ==
    [][\A r \in images : r \notin images' => reply'.caller = r.user_id]_vars

\* The images the public gallery of owner u has to show
Published(u) == {r.id : r \in {x \in images : x.user_id = u /\ x.published}}

TargetOf(name) == (CHOOSE i \in DOMAIN sizes : sizes[i].name = name)
Min(a, b) == IF a < b THEN a ELSE b
Produced(vs) == {vs[i].size : i \in DOMAIN vs}

\* C16: every rendition produced has width min(target width, original
\* width), hence none is wider than the original; the thumbnail is attempted
\* whatever the width (it is produced whenever the encoder works and its
\* height is at least 1 pixel); an original narrower than 800 pixels gets no
\* rendition other than the thumbnail.
C16_WidthsNeverUpscale ==
    [][\A encFail \in SUBSET SizeNames : Variants(1, encFail) =>
          LET blob == loc[1].req.blob
              vs   == loc'[1].variants
          IN  /\ \A i \in DOMAIN vs :
                    /\ vs[i].width = Min(sizes[TargetOf(vs[i].size)].target, blob.w)
                    /\ vs[i].width <= blob.w
              /\ ("thumbnail" \notin encFail /\ Min(400, blob.w) * blob.h >= blob.w)
                    => "thumbnail" \in Produced(vs)
              /\ blob.w < 800 => Produced(vs) \subseteq {"thumbnail"}
              /\ (blob.w < 800 /\ encFail = {} /\ blob.h >= blob.w)
                    => Produced(vs) = {"thumbnail"}]_vars

\* An original 300 pixels wide has got its one rendition, 300 pixels wide
C16_Witness ==
    /\ loc[1].pc = "slug"
    /\ loc[1].req.blob.w = 300
    /\ Len(loc[1].variants) = 1
    /\ loc[1].variants[1].size = "thumbnail"
    /\ loc[1].variants[1].width = 300

\* C17 as stated: a rendition of width w of a W x H original has height
\* w*H/W rounded to the nearest integer, and a 3000x2000 original ingested
\* with a healthy caption service gets 1200x800, 800x533 and 400x267, success
\* and no warnings.
C17_HeightIsRounded ==
    \A p \in Procs : loc[p].pc = "done" /\ loc[p].resp.success =>
        LET blob == loc[p].req.blob
            vs   == loc[p].variants
        IN  /\ \A i \in DOMAIN vs :
                  /\ 2 * (vs[i].height * blob.w - vs[i].width * blob.h) <= blob.w
                  /\ 2 * (vs[i].width * blob.h - vs[i].height * blob.w) <= blob.w
            /\ (blob.w = 3000 /\ blob.h = 2000 /\ Len(vs) = 3) =>
                  /\ {<<vs[i].width, vs[i].height>> : i \in DOMAIN vs}
                        = {<<1200, 800>>, <<800, 533>>, <<400, 267>>}
                  /\ loc[p].warnings = <<>>
(***************************************************************************)
(* Claims about the response and about undecodable uploads                 *)
(***************************************************************************)
\* The degradations of a call in the order of its steps: the detected type
\* differs from the declared one, the captioning step returned an error,
\* the rendition step returned an error.
Degradations(p) ==
    (IF loc[p].actual_media_type # loc[p].req.content_type
     THEN <<FORMAT_MISMATCH>> ELSE <<>>)
    \o (IF loc[p].ai_error # None THEN <<loc[p].ai_error>> ELSE <<>>)
    \o (IF loc[p].variant_error # None THEN <<loc[p].variant_error>> ELSE <<>>)

C19_UndecodableUploadFails ==
    \A p \in Procs :
        (/\ Finished(p)
         /\ ~BadType(loc[p].req) /\ ~TooLarge(loc[p].req)
         /\ ~Decodable(loc[p].req.blob)) =>
            /\ ~loc[p].resp.success
            /\ \A r \in images : r.filename # loc[p].file_path
            /\ loc[p].file_path \notin files
(***************************************************************************)
(* Claims about the names in the asset store                               *)
(***************************************************************************)
\* C20 as stated: no ingestion writes an original or a rendition under a
\* name that is already in the asset store, and two distinct image records
\* never reference the same original filename or the same rendition
\* filename.
C20_AssetNamesAreWriteOnce ==
    /\ [][\A p \in Procs :
             /\ SaveOriginal(p, TRUE) =>
                   StoredName(now, loc[p].req.blob, loc[p].req.filename) \notin files
             /\ (\E encFail \in SUBSET SizeNames : Variants(p, encFail)) =>
                   VariantFiles(loc'[p].variants) \cap files = {}]_vars
    /\ [](\A a \in images : \A b \in images :
             a.id # b.id =>
                 /\ a.filename # b.filename
                 /\ \A v \in VariantsOf(a.id) : \A w \in VariantsOf(b.id) :
                       v.filename # w.filename)
(***************************************************************************)
(* Claims about deletion                                                   *)
(***************************************************************************)
\* A step of one of the two delete routes that removes the record id
Deletes(id) ==
    /\ \/ delete_image(id)
       \/ \E u \in Users : photographer_delete_image(id, u)
    /\ \E r \in images : r.id = id
    /\ \A r \in images' : r.id # id

\* C21 as stated: after an image is deleted through either delete route, no
\* rendition row that references its id remains in the relational store.
C21_DeleteRemovesRenditionRows ==
    [][\A id \in ImageIds :
          Deletes(id) => \A v \in image_variants' : v.image_id # id]_vars
(***************************************************************************)
(* Claims about metadata extraction and format detection                   *)
(***************************************************************************)
ExifKeys == ExifTags \cup {"width", "height", "aspect_ratio"}

\* C22: extract_exif never raises.  Once the original is written the call
\* goes on to the captioning step with a record of exactly the twelve keys:
\* every tag is null when the file has no readable EXIF segment, a malformed
\* date or position is null, and the dimensions are those of the image, or
\* null when the file cannot be opened.
C22_ExtractExifNeverRaises ==
    [][\A p \in Procs : SaveOriginal(p, TRUE) =>
          LET blob == loc[p].req.blob
              e    == loc'[p].exif_data
          IN  /\ loc'[p].pc = "analyze"
              /\ DOMAIN e = ExifKeys
              /\ Cardinality(DOMAIN e) = 12
              /\ (~blob.exif.present \/ ~Decodable(blob) \/ ~PiexifLoads(blob)) =>
                    \A k \in ExifTags : e[k] = None
              /\ "date" \in blob.exif.defects => e.date_taken = None
              /\ "gps" \in blob.exif.defects => e.location = None
              /\ Decodable(blob) =>
                    e.width = blob.w /\ e.height = blob.h /\ e.aspect_ratio = Value
              /\ ~Decodable(blob) =>
                    e.width = None /\ e.height = None /\ e.aspect_ratio = None]_vars

\* C22 witness: the file could not be opened, every field is null, and the
\* call is at the captioning step.
C22_Witness ==
    \E p \in Procs :
        /\ loc[p].pc = "analyze"
        /\ ~Decodable(loc[p].req.blob)
        /\ \A k \in ExifTags : loc[p].exif_data[k] = None
        /\ loc[p].exif_data.width = None
\* The encoding a declared content type denotes
Denotes(content_type) ==
    CASE content_type \in {"image/jpeg", "image/jpg"} -> "jpeg"
      [] content_type = "image/png" -> "png"
      [] OTHER -> "other"

\* C23 as stated: once the original of an accepted upload is written, the
\* call goes on; it carries a FORMAT_MISMATCH warning exactly when the file
\* was decoded and its encoding is not the one the declared type denotes,
\* and the type handed to the captioning step is then the detected one; a
\* file that cannot be decoded gets no such warning.
C23_MismatchIffEncodingDiffers ==
    \A p \in Procs : loc[p].pc = "analyze" =>
        LET u == loc[p].req
            warned == \E k \in DOMAIN loc[p].warnings :
                          loc[p].warnings[k] = FORMAT_MISMATCH
        IN  /\ warned <=> (Decodable(u.blob) /\ u.blob.fmt # Denotes(u.content_type))
            /\ warned => /\ loc[p].actual_media_type = format_to_mime(u.blob.fmt)
                         /\ loc[p].actual_media_type # u.content_type
            /\ ~Decodable(u.blob) => ~warned
(***************************************************************************)
(* Claims about partial failure of the renditions                          *)
(***************************************************************************)
\* The size classes generate_variants attempts for a blob
Attempted(blob) == {i \in DOMAIN sizes : ~Skipped(blob, sizes[i])}

\* Some but not all attempted size classes failed in the call of p
PartialFailure(p) ==
    /\ Decodable(loc[p].req.blob)
    /\ Len(loc[p].variants) > 0
    /\ Len(loc[p].variants) < Cardinality(Attempted(loc[p].req.blob))

\* C24 as stated: a successful call in which some but not all attempted size
\* classes failed has committed exactly the renditions that succeeded, and
\* its response carries a warning about the renditions.
C24_PartialFailureIsReported ==
    \A p \in Procs : (Succeeded(p) /\ PartialFailure(p)) =>
        /\ VariantsOf(loc[p].resp.image_id)
              = VariantRows(loc[p].resp.image_id, loc[p].variants)
        /\ "warnings" \in loc[p].resp.keys
        /\ \E k \in DOMAIN loc[p].resp.warnings :
              loc[p].resp.warnings[k] \notin CaptionCodes \cup {FORMAT_MISMATCH}
(***************************************************************************)
(* Claims about concurrent ingestions and compensation                     *)
(***************************************************************************)
\* C25 as stated: an insert rejected by the (owner, slug) uniqueness
\* constraint is retried with a newly allocated slug, so no call ends in
\* failure because of the constraint, and two finished calls of one owner
\* that ran side by side have both committed, with distinct slugs.
C25_UniqueConflictIsRetried ==
    /\ \A p \in Procs :
          Finished(p) => (loc[p].resp.success \/ loc[p].resp.detail # "unique")
    /\ \A p \in Procs : \A q \in Procs :
          (/\ p # q /\ Succeeded(p) /\ Finished(q)
           /\ loc[q].slug # None
           /\ ~loc[q].resp.success => loc[q].resp.detail = "unique") =>
              /\ Succeeded(q)
              /\ (loc[p].req.user_id = loc[q].req.user_id
                  /\ RowsOf(loc[p].resp.image_id) # {}
                  /\ RowsOf(loc[q].resp.image_id) # {}) =>
                     loc[p].slug # loc[q].slug

\* C26 as stated: when the record insert fails, the call returns the
\* structured persistence error of the insert, whether or not the
\* compensating delete of the original works.
C26_CleanupFailureKeepsTheError ==
    [][\A p \in Procs : \A unlink \in UnlinkOutcomes :
          InsertImageRaises(p, unlink) =>
              /\ loc'[p].pc = "done"
              /\ loc'[p].resp.code = DATABASE_CONNECTION_FAILED
              /\ loc'[p].resp.detail = "fault"]_vars

(***************************************************************************)
(* Claims about skipped size classes and the slug base                     *)
(***************************************************************************)
\* C27 as stated: with a working encoder, the medium and the large rendition
\* are left out exactly when the target width is greater than the original's
\* width; an original as wide as the target gets the rendition.
C27_SkippedIffTargetWider ==
    [][Variants(1, {}) =>
          \A i \in DOMAIN sizes :
              (sizes[i].name # "thumbnail"
               /\ new_width(loc[1].req.blob, sizes[i]) * loc[1].req.blob.h
                     >= loc[1].req.blob.w) =>
                  (sizes[i].name \notin Produced(loc'[1].variants)
                      <=> sizes[i].target > loc[1].req.blob.w)]_vars
\* C28 as stated: the slug base is the slugified title of the enrichment, or
\* the slugified stem of the submitted filename when that title is empty;
\* it is not empty when the stem slugifies to a non-empty string.
C28_SlugBaseFallsBackToStem ==
    \A p \in Procs : loc[p].pc = "slug" =>
        LET title == loc[p].ai_metadata.title
            stem  == Stem(loc[p].req.filename)
        IN  /\ loc[p].slug_base =
                  IF title # <<>> THEN slugify(title) ELSE slugify(stem)
            /\ slugify(stem) # <<>> => loc[p].slug_base # <<>>

\* C29 as stated: the original of every committed image record is in the
\* asset store, and a step that ends a call in failure removes no file that
\* a committed record references.
C29_CommittedOriginalsArePresent ==
    /\ [](\A r \in images : r.filename \in files)
    /\ [][\A p \in Procs :
             (loc[p].pc # "done" /\ loc'[p].pc = "done" /\ ~loc'[p].resp.success) =>
                 \A r \in images : r.filename \in files => r.filename \in files']_vars

\* C30 as stated: after an image is deleted through either delete route its
\* original and its rendition files are not in the asset store, and the
\* deletion removes no file that a remaining image record references.
C30_DeleteRemovesOnlyItsFiles ==
    [][\A id \in ImageIds : Deletes(id) =>
          /\ \A r \in RowsOf(id) : r.filename \notin files'
          /\ \A v \in VariantsOf(id) : v.filename \notin files'
          /\ \A r \in images' :
                /\ r.filename \in files => r.filename \in files'
                /\ \A v \in VariantsOf(r.id) :
                      v.filename \in files => v.filename \in files']_vars
====
